---- MODULE Spec2Model ----
(***************************************************************************)
(* Organization management service: the organization registry (master     *)
(* collection "organizations"), the tenant collections of the master      *)
(* database, admin login, the JWT handler and the bearer-token gate.      *)
(* Strings that the code lowercases, trims or slugifies are sequences of  *)
(* one-character strings; passwords and messages are plain strings.       *)
(***************************************************************************)
EXTENDS Integers, Sequences, FiniteSets, TLC

\* ------------------------------------------------------------------ bounds
MaxOrgs == 2      \* organization documents ever inserted (ObjectIds handed out)
MaxTicks == 1     \* clock steps taken while the service is called directly
MaxApiTicks == 2  \* clock steps taken while the API is called
MaxTokens == 1    \* access tokens kept for later presentation
MaxDocs == 1      \* distinct tenant documents
MaxNameLen == 4   \* length of the names the collection naming rule is applied to
MaxCallers == 2   \* callers that can be inside a service method at once

\* ------------------------------------------------------- program constants
AccessTokenExpireMinutes == 60

SecretKey == "SECRET_KEY"

Prefix == <<"o", "r", "g", "_">>

DefaultSlug == <<"o", "r", "g">>

\* ------------------------------------------------------------ input values
NameA == <<"a", "-", "b">>

NameB == <<"a", " ", "b">>

NameC == <<"A", "-", "b", " ">>

NameD == <<"a", "b", "c">>

Names == {NameA, NameB, NameC, NameD}

EmailUpper == <<"A", "@", "x">>

EmailLower == <<"b", "@", "x">>

Emails == {EmailUpper, EmailLower}

Passwords == {"password1", "password2"}

Docs == 1..MaxDocs

NoStr == <<>>

NoPassword == ""

ClockStep == AccessTokenExpireMinutes \div 2

\* names for the collection naming rule: every string up to MaxNameLen over
\* letters of both cases, a digit, a space and punctuation, and three longer ones
NameAlphabet == {"a", "B", "1", " ", "-", "_"}

NameMyOrgSpaced == <<" ", "M", "y", " ", "O", "r", "g", "!", " ">>

NameMyOrgDashed == <<"m", "y", "-", "o", "r", "g">>

NameAcmeInc == <<"A", "c", "m", "e", ",", " ", "I", "n", "c", ".">>

NamingNames ==
    UNION {[1..n -> NameAlphabet] : n \in 0..MaxNameLen}
        \cup {NameMyOrgSpaced, NameMyOrgDashed, NameAcmeInc}

\* ------------------------------------------------------- string primitives
\* the letters and digits that occur in the input values
LowerCase == {"a", "b", "c", "e", "g", "i", "m", "n", "o", "r", "x", "y"}

UpperCase == [c \in {"A", "B", "I", "M", "O"} |->
                 CASE c = "A" -> "a"
                   [] c = "B" -> "b"
                   [] c = "I" -> "i"
                   [] c = "M" -> "m"
                   [] c = "O" -> "o"]

Digits == {"1", "9"}

LowerChar(c) == IF c \in DOMAIN UpperCase THEN UpperCase[c] ELSE c

Lower(s) == [i \in DOMAIN s |-> LowerChar(s[i])]

\* [a-zA-Z0-9]
IsAlnum(c) == c \in LowerCase \cup DOMAIN UpperCase \cup Digits

RECURSIVE LStrip(_, _)
LStrip(s, chars) ==
    IF s # <<>> /\ Head(s) \in chars THEN LStrip(Tail(s), chars) ELSE s

RECURSIVE RStrip(_, _)
RStrip(s, chars) ==
    IF s # <<>> /\ s[Len(s)] \in chars
    THEN RStrip(SubSeq(s, 1, Len(s) - 1), chars)
    ELSE s

StripChars(s, chars) == RStrip(LStrip(s, chars), chars)

Whitespace == {" "}

Strip(s) == StripChars(s, Whitespace)

\* organization_name.lower().strip()
NormalizedName(name) == Strip(Lower(name))

\* email.lower().strip()
NormalizedEmail(email) == Strip(Lower(email))

\* variant: the pattern lacks the +, every character becomes an underscore
ReSubEach(s) == [i \in DOMAIN s |-> IF IsAlnum(s[i]) THEN s[i] ELSE "_"]

\* re.sub(r"[^a-zA-Z0-9]+", "_", s): every maximal run becomes one underscore
RECURSIVE ReSubRuns(_)
ReSubRuns(s) ==
    IF s = <<>> THEN <<>>
    ELSE IF IsAlnum(Head(s)) THEN <<Head(s)>> \o ReSubRuns(Tail(s))
    ELSE IF Len(s) > 1 /\ ~IsAlnum(s[2]) THEN ReSubRuns(Tail(s))
    ELSE <<"_">> \o ReSubRuns(Tail(s))

normalize_org_name(organization_name) ==
    LET slug == ReSubRuns(Lower(Strip(organization_name)))
        trimmed == StripChars(slug, {"_"})
    IN IF trimmed = <<>> THEN DefaultSlug ELSE trimmed

build_org_collection_name(organization_name) ==
    Prefix \o normalize_org_name(organization_name)


\* ------------------------------------------------------------------- state
VARIABLES
    registry,     \* documents of master_db["organizations"]
    collections,  \* tenant collections of the master database: name -> documents
    nextId,       \* the next ObjectId the store hands out
    clock,        \* datetime.now(timezone.utc), in minutes
    tokens,       \* access tokens that clients hold
    issuer,       \* for each token held, the id of the record login read
    calls,        \* for each caller, its call of a service method in flight
    last          \* the last request and the response it got

vars == <<registry, collections, nextId, clock, tokens, issuer, calls, last>>

NoDoc == [id |-> 0]

\* --------------------------------------------------------- password hasher
\* a one-way transform that verify_password can match a password against
hash_password(password) == [hash_of |-> password]

verify_password(password, password_hash) == password_hash.hash_of = password

\* ------------------------------------------------------------ store access
\* find_one: the first matching document in insertion (ObjectId) order
FirstOf(matches) ==
    IF matches = {} THEN NoDoc
    ELSE CHOOSE r \in matches : \A q \in matches : r.id <= q.id

\* variant: the lookup compares the display name, not the normalized key
find_one_by_display_name(reg, name_lower) ==
    FirstOf({r \in reg : r.name = name_lower})

find_one_by_name_lower(reg, name_lower) ==
    FirstOf({r \in reg : r.name_lower = name_lower})

find_one_by_email(reg, email) ==
    FirstOf({r \in reg : r.email = email})

_ensure_collection_exists(colls, collection_name) ==
    IF collection_name \in DOMAIN colls
    THEN colls
    ELSE [c \in DOMAIN colls \cup {collection_name} |->
            IF c = collection_name THEN {} ELSE colls[c]]

_drop_collection(colls, collection_name) ==
    [c \in DOMAIN colls \ {collection_name} |-> colls[c]]

_migrate_collection(colls, old_collection_name, new_collection_name) ==
    IF old_collection_name = new_collection_name THEN colls
    ELSE
        LET ensured == _ensure_collection_exists(colls, new_collection_name)
            documents == IF old_collection_name \in DOMAIN ensured
                         THEN ensured[old_collection_name]
                         ELSE {}
            copied == IF documents # {}
                      THEN [ensured EXCEPT ![new_collection_name] = documents]
                      ELSE ensured
        IN _drop_collection(copied, old_collection_name)

\* variant: the response carries the normalized name
_serialize_org_name_lower(org_doc) ==
    [id |-> org_doc.id,
     organization_name |-> org_doc.name_lower,
     email |-> org_doc.email,
     collection_name |-> org_doc.collection_name,
     created_at |-> org_doc.created_at,
     updated_at |-> org_doc.updated_at]

_serialize_org(org_doc) ==
    [id |-> org_doc.id,
     organization_name |-> org_doc.name,
     email |-> org_doc.email,
     collection_name |-> org_doc.collection_name,
     created_at |-> org_doc.created_at,
     updated_at |-> org_doc.updated_at]

\* ---------------------------------------------------- organization service
\* what a service method leaves behind: the ValueError it raised ("" when it
\* returned), the store, the value returned, and whether it wrote to the store
Failure(reg, colls, message) ==
    [error |-> message, registry |-> reg, collections |-> colls,
     result |-> NoDoc, wrote |-> FALSE]

Success(reg, colls, result, wrote) ==
    [error |-> "", registry |-> reg, collections |-> colls,
     result |-> result, wrote |-> wrote]

\* lines 35-46 of create_organization: the document of a new organization
NewOrganization(payload, oid, now) ==
    [id |-> oid,
     name |-> payload.organization_name,
     name_lower |-> NormalizedName(payload.organization_name),
     email |-> Lower(payload.email),
     password_hash |-> hash_password(payload.password),
     collection_name |-> build_org_collection_name(payload.organization_name),
     created_at |-> now,
     updated_at |-> now]

\* lines 25-48 of create_organization: provision the collection, insert the record
InsertOrganization(reg, colls, payload, oid, now) ==
    LET collection_name == build_org_collection_name(payload.organization_name)
        org_doc == NewOrganization(payload, oid, now)
    IN Success(reg \cup {org_doc},
               _ensure_collection_exists(colls, collection_name),
               _serialize_org(org_doc), TRUE)

\* variant: the uniqueness lookup compares the name as given
svc_create_organization_exact_name(reg, colls, payload, oid, now) ==
    IF \E r \in reg : r.name = payload.organization_name
    THEN Failure(reg, colls, "Organization already exists")
    ELSE InsertOrganization(reg, colls, payload, oid, now)

svc_create_organization(reg, colls, payload, oid, now) ==
    LET normalized_name == NormalizedName(payload.organization_name)
        existing == find_one_by_name_lower(reg, normalized_name)
    IN IF existing # NoDoc
       THEN Failure(reg, colls, "Organization already exists")
       ELSE InsertOrganization(reg, colls, payload, oid, now)

svc_get_organization(reg, organization_name) ==
    LET org_doc == find_one_by_name_lower(reg, NormalizedName(organization_name))
    IN IF org_doc # NoDoc THEN _serialize_org(org_doc) ELSE NoDoc

\* line 78: the payload names an organization other than the current one
NameChanges(payload, normalized_name) ==
    /\ payload.organization_name # NoStr
    /\ NormalizedName(payload.organization_name) # normalized_name

\* variant: the updates dictionary starts out holding updated_at
HasUpdates_always(payload, normalized_name) == TRUE

\* line 96: the updates dictionary is not empty
HasUpdates(payload, normalized_name) ==
    \/ NameChanges(payload, normalized_name)
    \/ payload.email # NoStr
    \/ payload.password # NoPassword

\* lines 84-99: the record with the staged updates applied
StagedDoc(org_doc, payload, normalized_name, now) ==
    LET named == IF NameChanges(payload, normalized_name)
                 THEN [org_doc EXCEPT
                         !.name = payload.organization_name,
                         !.name_lower = NormalizedName(payload.organization_name),
                         !.collection_name =
                             build_org_collection_name(payload.organization_name)]
                 ELSE org_doc
        mailed == IF payload.email # NoStr
                  THEN [named EXCEPT !.email = NormalizedEmail(payload.email)]
                  ELSE named
        hashed == IF payload.password # NoPassword
                  THEN [mailed EXCEPT !.password_hash =
                                          hash_password(payload.password)]
                  ELSE mailed
    IN IF HasUpdates(payload, normalized_name)
       THEN [hashed EXCEPT !.updated_at = now]
       ELSE org_doc

\* lines 95-105: persist the staged record, then migrate the collection
PersistAndMigrate(reg, colls, org_doc, updated, wrote) ==
    Success(IF wrote THEN (reg \ {org_doc}) \cup {updated} ELSE reg,
            IF updated.collection_name # org_doc.collection_name
            THEN _migrate_collection(colls, org_doc.collection_name,
                                     updated.collection_name)
            ELSE colls,
            _serialize_org(updated),
            wrote)

\* variant: the email and the password are written before the name is checked
svc_update_organization_write_first(reg, colls, current_org_name, payload, now) ==
    LET normalized_name == NormalizedName(current_org_name)
        org_doc == find_one_by_name_lower(reg, normalized_name)
        unnamed == [payload EXCEPT !.organization_name = NoStr]
        early == StagedDoc(org_doc, unnamed, normalized_name, now)
    IN IF org_doc = NoDoc THEN Failure(reg, colls, "Organization not found")
       ELSE IF /\ NameChanges(payload, normalized_name)
               /\ find_one_by_name_lower(
                      reg, NormalizedName(payload.organization_name)) # NoDoc
       THEN Failure((reg \ {org_doc}) \cup {early}, colls,
                    "Organization name already exists")
       ELSE PersistAndMigrate(reg, colls, org_doc,
                              StagedDoc(org_doc, payload, normalized_name, now),
                              HasUpdates(payload, normalized_name))

svc_update_organization(reg, colls, current_org_name, payload, now) ==
    LET normalized_name == NormalizedName(current_org_name)
        org_doc == find_one_by_name_lower(reg, normalized_name)
    IN IF org_doc = NoDoc THEN Failure(reg, colls, "Organization not found")
       ELSE IF /\ NameChanges(payload, normalized_name)
               /\ find_one_by_name_lower(
                      reg, NormalizedName(payload.organization_name)) # NoDoc
       THEN Failure(reg, colls, "Organization name already exists")
       ELSE PersistAndMigrate(reg, colls, org_doc,
                              StagedDoc(org_doc, payload, normalized_name, now),
                              HasUpdates(payload, normalized_name))

\* variant: the record is deleted and its collection is left in place
svc_delete_organization_keep_collection(reg, colls, organization_name) ==
    LET org_doc == find_one_by_name_lower(reg, NormalizedName(organization_name))
    IN IF org_doc = NoDoc THEN Failure(reg, colls, "Organization not found")
       ELSE Success(reg \ {org_doc}, colls, NoDoc, TRUE)

\* variant: the record is looked up by the collection name built from the name
svc_delete_organization_by_slug(reg, colls, organization_name) ==
    LET collection_name == build_org_collection_name(organization_name)
        org_doc == FirstOf({r \in reg : r.collection_name = collection_name})
    IN IF org_doc = NoDoc THEN Failure(reg, colls, "Organization not found")
       ELSE Success(reg \ {org_doc},
                    _drop_collection(colls, org_doc.collection_name),
                    NoDoc, TRUE)

svc_delete_organization(reg, colls, organization_name) ==
    LET org_doc == find_one_by_name_lower(reg, NormalizedName(organization_name))
    IN IF org_doc = NoDoc THEN Failure(reg, colls, "Organization not found")
       ELSE Success(reg \ {org_doc},
                    _drop_collection(colls, org_doc.collection_name),
                    NoDoc, TRUE)

\* -------------------------------------------------------------- JWT handler
\* jwt.encode: a token is the payload together with the key that signed it
jwt_encode(payload, key) == [malformed |-> FALSE, key |-> key, payload |-> payload]

create_access_token(subject, now) ==
    jwt_encode([exp |-> now + AccessTokenExpireMinutes,
                iat |-> now,
                admin_email |-> subject.admin_email,
                organization_name |-> subject.organization_name],
               SecretKey)

\* variant: a token counts as expired one clock step before its exp
decode_token_early_expiry(token, now) ==
    IF token.malformed THEN [raised |-> TRUE, payload |-> NoDoc]
    ELSE IF token.key # SecretKey THEN [raised |-> TRUE, payload |-> NoDoc]
    ELSE IF "exp" \in DOMAIN token.payload /\ token.payload.exp <= now + ClockStep
    THEN [raised |-> TRUE, payload |-> NoDoc]
    ELSE [raised |-> FALSE, payload |-> token.payload]

\* jwt.decode raises on a malformed token, on a signature that does not verify
\* under the secret key, and on an exp that is not in the future
decode_token(token, now) ==
    IF token.malformed THEN [raised |-> TRUE, payload |-> NoDoc]
    ELSE IF token.key # SecretKey THEN [raised |-> TRUE, payload |-> NoDoc]
    ELSE IF "exp" \in DOMAIN token.payload /\ token.payload.exp <= now
    THEN [raised |-> TRUE, payload |-> NoDoc]
    ELSE [raised |-> FALSE, payload |-> token.payload]

\* --------------------------------------------------------------- auth gate
NoCredentials == [present |-> FALSE]

Bearer(token) == [present |-> TRUE, credentials |-> token]

\* variant: the gate denies only when both claims are missing
get_current_admin_either_claim(credentials, now) ==
    IF ~credentials.present
    THEN [status |-> 401, detail |-> "Missing authorization header", payload |-> NoDoc]
    ELSE
        LET decoded == decode_token(credentials.credentials, now)
        IN IF decoded.raised
           THEN [status |-> 401, detail |-> "Invalid or expired token",
                 payload |-> NoDoc]
           ELSE IF /\ "admin_email" \notin DOMAIN decoded.payload
                   /\ "organization_name" \notin DOMAIN decoded.payload
           THEN [status |-> 401,
                 detail |-> "Token missing required claims (admin_email, organization_name)",
                 payload |-> NoDoc]
           ELSE [status |-> 200, detail |-> "", payload |-> decoded.payload]

get_current_admin(credentials, now) ==
    IF ~credentials.present
    THEN [status |-> 401, detail |-> "Missing authorization header", payload |-> NoDoc]
    ELSE
        LET decoded == decode_token(credentials.credentials, now)
        IN IF decoded.raised
           THEN [status |-> 401, detail |-> "Invalid or expired token",
                 payload |-> NoDoc]
           ELSE IF \/ "admin_email" \notin DOMAIN decoded.payload
                   \/ "organization_name" \notin DOMAIN decoded.payload
           THEN [status |-> 401,
                 detail |-> "Token missing required claims (admin_email, organization_name)",
                 payload |-> NoDoc]
           ELSE [status |-> 200, detail |-> "", payload |-> decoded.payload]

\* ----------------------------------------------------------- admin service
\* variant: an unknown email gets a message of its own
svc_login_unknown_email(reg, payload, now) ==
    LET org_doc == find_one_by_email(reg, NormalizedEmail(payload.email))
        claims == [admin_email |-> org_doc.email, organization_name |-> org_doc.name]
    IN IF org_doc = NoDoc
       THEN [error |-> "Unknown email", result |-> NoDoc]
       ELSE IF ~verify_password(payload.password, org_doc.password_hash)
       THEN [error |-> "Invalid credentials", result |-> NoDoc]
       ELSE [error |-> "",
             result |-> [access_token |-> create_access_token(claims, now),
                         token_type |-> "bearer",
                         admin_email |-> org_doc.email,
                         organization_name |-> org_doc.name]]

svc_login(reg, payload, now) ==
    LET org_doc == find_one_by_email(reg, NormalizedEmail(payload.email))
        claims == [admin_email |-> org_doc.email, organization_name |-> org_doc.name]
    IN IF org_doc = NoDoc
       THEN [error |-> "Invalid credentials", result |-> NoDoc]
       ELSE IF ~verify_password(payload.password, org_doc.password_hash)
       THEN [error |-> "Invalid credentials", result |-> NoDoc]
       ELSE [error |-> "",
             result |-> [access_token |-> create_access_token(claims, now),
                         token_type |-> "bearer",
                         admin_email |-> org_doc.email,
                         organization_name |-> org_doc.name]]

\* ------------------------------------------------------------------ routes
\* the response to a call: status is the HTTP status of a route's response and
\* 0 for a direct call of a service method; error is the message of the
\* exception raised ("" when the call returned), body the value returned
Response(op, status, error, body, wrote) ==
    [op |-> op, status |-> status, error |-> error, body |-> body, wrote |-> wrote]

\* what a handler leaves behind: the store and the response
Handled(reg, colls, response) ==
    [registry |-> reg, collections |-> colls, response |-> response]

Denied(reg, colls, op, status, detail) ==
    Handled(reg, colls, Response(op, status, detail, NoDoc, FALSE))

\* a service method's result as the route returns it: the ValueError it
\* raised becomes an HTTPException with the status given
Routed(op, reg, colls, r, ok_status, error_status) ==
    IF r.error = ""
    THEN Handled(r.registry, r.collections,
                 Response(op, ok_status, "", r.result, r.wrote))
    ELSE Denied(reg, colls, op, error_status, r.error)

route_create_organization(reg, colls, payload, oid, now) ==
    Routed("create", reg, colls,
           svc_create_organization(reg, colls, payload, oid, now), 201, 400)

route_get_organization(reg, colls, organization_name) ==
    LET organization == svc_get_organization(reg, organization_name)
    IN IF organization = NoDoc
       THEN Denied(reg, colls, "get", 404, "Organization not found")
       ELSE Handled(reg, colls, Response("get", 200, "", organization, FALSE))

\* the body of update_organization, run once the gate has let the request in
UpdateAs(reg, colls, current_admin, payload, now) ==
    Routed("update", reg, colls,
           svc_update_organization(reg, colls, current_admin.organization_name,
                                   payload, now),
           200, 400)

\* the body of delete_organization, run once the gate has let the request in
DeleteAs(reg, colls, current_admin, organization_name) ==
    IF NormalizedName(organization_name)
           # NormalizedName(current_admin.organization_name)
    THEN Denied(reg, colls, "delete", 403,
                "You can only delete your own organization")
    ELSE IF svc_get_organization(reg, organization_name) = NoDoc
    THEN Denied(reg, colls, "delete", 404, "Organization not found")
    ELSE Routed("delete", reg, colls,
                svc_delete_organization(reg, colls, organization_name), 204, 404)

\* Depends(get_current_admin): the handler's body runs only if the gate returns
Gated(op, reg, colls, gate, body) ==
    IF gate.status # 200
    THEN Denied(reg, colls, op, gate.status, gate.detail)
    ELSE body

route_update_organization(reg, colls, credentials, payload, now) ==
    Gated("update", reg, colls, get_current_admin(credentials, now),
          UpdateAs(reg, colls, get_current_admin(credentials, now).payload,
                   payload, now))

route_delete_organization(reg, colls, credentials, organization_name, now) ==
    Gated("delete", reg, colls, get_current_admin(credentials, now),
          DeleteAs(reg, colls, get_current_admin(credentials, now).payload,
                   organization_name))

\* svc_login's result as admin_login returns it
LoggedIn(reg, colls, r) ==
    IF r.error = ""
    THEN Handled(reg, colls, Response("login", 200, "", r.result, FALSE))
    ELSE Denied(reg, colls, "login", 401, r.error)

route_admin_login(reg, colls, payload, now) ==
    LoggedIn(reg, colls, svc_login(reg, payload, now))

\* ---------------------------------------------------------------- requests
\* the bearer tokens a client may present: those it holds, those with a
\* signature that does not verify, a malformed one, and ones signed with the
\* secret key that lack a required claim
Tampered(token) == [token EXCEPT !.key = "tampered"]

Malformed == [malformed |-> TRUE, key |-> "", payload |-> NoDoc]

ClaimlessTokens(now) ==
    LET exp == now + AccessTokenExpireMinutes
    IN {jwt_encode([exp |-> exp, iat |-> now], SecretKey),
        jwt_encode([exp |-> exp, iat |-> now, admin_email |-> EmailLower],
                   SecretKey),
        jwt_encode([exp |-> exp, iat |-> now, organization_name |-> NameA],
                   SecretKey)}

Credentials ==
    {NoCredentials, Bearer(Malformed)}
        \cup {Bearer(t) : t \in tokens}
        \cup {Bearer(Tampered(t)) : t \in tokens}
        \cup {Bearer(t) : t \in ClaimlessTokens(clock)}

CreatePayloads(names, emails, passwords) ==
    [organization_name : names, email : emails, password : passwords]

UpdatePayloads(names, emails, passwords) ==
    [organization_name : names \cup {NoStr},
     email : emails \cup {NoStr},
     password : passwords \cup {NoPassword}]

LoginPayloads == [email : Emails, password : Passwords]

\* ------------------------------------------------- store calls, one by one
\* A call of a service method in flight: pc names the store call it awaits
\* next, org_doc, old_collection_name and documents are its local variables,
\* raised is the class of the exception it ended with ("" when it returned)
\* and failed_at the store call that raised.
NoPayload == [organization_name |-> NoStr, email |-> NoStr, password |-> NoPassword]

IdleCall ==
    [op |-> "none", pc |-> "idle", name |-> NoStr, payload |-> NoPayload,
     org_doc |-> NoDoc, old_collection_name |-> NoStr, documents |-> {},
     raised |-> "", message |-> "", result |-> NoDoc, failed_at |-> ""]

NewCall(op, pc, name, payload) ==
    [IdleCall EXCEPT !.op = op, !.pc = pc, !.name = name, !.payload = payload]

InFlight(call) == call.pc \notin {"idle", "done"}

\* the store after a step and the call that took it
Stepped(reg, colls, call) ==
    [registry |-> reg, collections |-> colls, call |-> call]

Goto(reg, colls, call, pc) == Stepped(reg, colls, [call EXCEPT !.pc = pc])

Raise(reg, colls, call, class, message) ==
    Stepped(reg, colls,
            [call EXCEPT !.pc = "done", !.raised = class, !.message = message,
                         !.failed_at = call.pc])

Return(reg, colls, call, result) ==
    Stepped(reg, colls, [call EXCEPT !.pc = "done", !.result = result])

\* db.create_collection raises CollectionInvalid if the collection exists
create_collection(reg, colls, call, collection_name, pc) ==
    IF collection_name \in DOMAIN colls
    THEN Raise(reg, colls, call, "PyMongoError", "collection already exists")
    ELSE Goto(reg, _ensure_collection_exists(colls, collection_name), call, pc)

\* variant: the master collection has a unique index on name_lower
create_organization_step_unique_index(reg, colls, call, oid, now) ==
    LET payload == call.payload
        collection_name == build_org_collection_name(payload.organization_name)
        org_doc == NewOrganization(payload, oid, now)
    IN CASE call.pc = "find_existing" ->
               IF find_one_by_name_lower(
                      reg, NormalizedName(payload.organization_name)) # NoDoc
               THEN Raise(reg, colls, call, "ValueError",
                          "Organization already exists")
               ELSE Goto(reg, colls, call, "list_collections")
         [] call.pc = "list_collections" ->
               IF collection_name \in DOMAIN colls
               THEN Goto(reg, colls, call, "insert_one")
               ELSE Goto(reg, colls, call, "create_collection")
         [] call.pc = "create_collection" ->
               create_collection(reg, colls, call, collection_name, "insert_one")
         [] call.pc = "insert_one" ->
               IF \E r \in reg : r.name_lower = org_doc.name_lower
               THEN Raise(reg, colls, call, "PyMongoError", "duplicate key")
               ELSE Return(reg \cup {org_doc}, colls, call, _serialize_org(org_doc))

\* create_organization from one await to the next
create_organization_step(reg, colls, call, oid, now) ==
    LET payload == call.payload
        collection_name == build_org_collection_name(payload.organization_name)
        org_doc == NewOrganization(payload, oid, now)
    IN CASE call.pc = "find_existing" ->
               IF find_one_by_name_lower(
                      reg, NormalizedName(payload.organization_name)) # NoDoc
               THEN Raise(reg, colls, call, "ValueError",
                          "Organization already exists")
               ELSE Goto(reg, colls, call, "list_collections")
         [] call.pc = "list_collections" ->
               IF collection_name \in DOMAIN colls
               THEN Goto(reg, colls, call, "insert_one")
               ELSE Goto(reg, colls, call, "create_collection")
         [] call.pc = "create_collection" ->
               create_collection(reg, colls, call, collection_name, "insert_one")
         [] call.pc = "insert_one" ->
               Return(reg \cup {org_doc}, colls, call, _serialize_org(org_doc))

\* update_one({"_id": ...}, {"$set": updates}): the record with the id, if any
update_one(reg, id, updated) ==
    IF \E r \in reg : r.id = id
    THEN {r \in reg : r.id # id} \cup {updated}
    ELSE reg

\* line 102: the staged record names a collection other than the old one
Migrates(call, updated) ==
    /\ NameChanges(call.payload, NormalizedName(call.name))
    /\ updated.collection_name # call.old_collection_name

\* _migrate_collection from one await to the next; it returns into
\* update_organization, which returns the record
_migrate_collection_step(reg, colls, call) ==
    LET old == call.old_collection_name
        new == call.org_doc.collection_name
    IN CASE call.pc = "list_collections" ->
               IF new \in DOMAIN colls
               THEN Goto(reg, colls, call, "find_documents")
               ELSE Goto(reg, colls, call, "create_collection")
         [] call.pc = "create_collection" ->
               create_collection(reg, colls, call, new, "find_documents")
         [] call.pc = "find_documents" ->
               LET documents == IF old \in DOMAIN colls THEN colls[old] ELSE {}
               IN Goto(reg, colls, [call EXCEPT !.documents = documents],
                       IF documents # {} THEN "delete_many" ELSE "drop_old")
         [] call.pc = "delete_many" ->
               Goto(reg,
                    IF new \in DOMAIN colls
                    THEN [colls EXCEPT ![new] = {}] ELSE colls,
                    call, "insert_many")
         [] call.pc = "insert_many" ->
               LET ensured == _ensure_collection_exists(colls, new)
               IN Goto(reg, [ensured EXCEPT ![new] = @ \cup call.documents],
                       call, "drop_old")
         [] call.pc = "drop_old" ->
               Return(reg, _drop_collection(colls, old), call,
                      _serialize_org(call.org_doc))

MigrationSteps ==
    {"list_collections", "create_collection", "find_documents", "delete_many",
     "insert_many", "drop_old"}

\* variant: the collection is migrated before the record is persisted
update_organization_step_migrate_first(reg, colls, call, now) ==
    LET normalized_name == NormalizedName(call.name)
        staged == StagedDoc(call.org_doc, call.payload, normalized_name, now)
    IN CASE call.pc = "find_org" ->
               LET org_doc == find_one_by_name_lower(reg, normalized_name)
                   found == [call EXCEPT
                               !.org_doc = org_doc,
                               !.old_collection_name = org_doc.collection_name]
               IN IF org_doc = NoDoc
                  THEN Raise(reg, colls, call, "ValueError",
                             "Organization not found")
                  ELSE IF NameChanges(call.payload, normalized_name)
                  THEN Goto(reg, colls, found, "find_existing")
                  ELSE IF HasUpdates(call.payload, normalized_name)
                  THEN Goto(reg, colls, found, "update_one")
                  ELSE Return(reg, colls, found, _serialize_org(org_doc))
         [] call.pc = "find_existing" ->
               IF find_one_by_name_lower(
                      reg, NormalizedName(call.payload.organization_name)) # NoDoc
               THEN Raise(reg, colls, call, "ValueError",
                          "Organization name already exists")
               ELSE IF Migrates(call, staged)
               THEN Goto(reg, colls, [call EXCEPT !.org_doc = staged],
                         "list_collections")
               ELSE Goto(reg, colls, call, "update_one")
         [] call.pc = "update_one" ->
               Return(update_one(reg, call.org_doc.id, staged), colls,
                      [call EXCEPT !.org_doc = staged], _serialize_org(staged))
         [] call.pc = "drop_old" ->
               Stepped(update_one(reg, call.org_doc.id, call.org_doc),
                       _drop_collection(colls, call.old_collection_name),
                       [call EXCEPT !.pc = "done",
                                    !.result = _serialize_org(call.org_doc)])
         [] OTHER -> _migrate_collection_step(reg, colls, call)

\* update_organization from one await to the next
update_organization_step(reg, colls, call, now) ==
    LET normalized_name == NormalizedName(call.name)
        staged == StagedDoc(call.org_doc, call.payload, normalized_name, now)
    IN CASE call.pc = "find_org" ->
               LET org_doc == find_one_by_name_lower(reg, normalized_name)
                   found == [call EXCEPT
                               !.org_doc = org_doc,
                               !.old_collection_name = org_doc.collection_name]
               IN IF org_doc = NoDoc
                  THEN Raise(reg, colls, call, "ValueError",
                             "Organization not found")
                  ELSE IF NameChanges(call.payload, normalized_name)
                  THEN Goto(reg, colls, found, "find_existing")
                  ELSE IF HasUpdates(call.payload, normalized_name)
                  THEN Goto(reg, colls, found, "update_one")
                  ELSE Return(reg, colls, found, _serialize_org(org_doc))
         [] call.pc = "find_existing" ->
               IF find_one_by_name_lower(
                      reg, NormalizedName(call.payload.organization_name)) # NoDoc
               THEN Raise(reg, colls, call, "ValueError",
                          "Organization name already exists")
               ELSE Goto(reg, colls, call, "update_one")
         [] call.pc = "update_one" ->
               LET persisted == update_one(reg, call.org_doc.id, staged)
                   updated == [call EXCEPT !.org_doc = staged]
               IN IF Migrates(call, staged)
                  THEN Goto(persisted, colls, updated, "list_collections")
                  ELSE Return(persisted, colls, updated, _serialize_org(staged))
         [] OTHER -> _migrate_collection_step(reg, colls, call)

\* variant: the record is deleted before the collection is dropped
delete_organization_step_record_first(reg, colls, call) ==
    CASE call.pc = "find_org" ->
             LET org_doc == find_one_by_name_lower(reg, NormalizedName(call.name))
             IN IF org_doc = NoDoc
                THEN Raise(reg, colls, call, "ValueError", "Organization not found")
                ELSE Goto(reg, colls, [call EXCEPT !.org_doc = org_doc],
                          "delete_one")
      [] call.pc = "delete_one" ->
             Goto({r \in reg : r.id # call.org_doc.id}, colls, call,
                  "list_collections")
      [] call.pc = "list_collections" ->
             IF call.org_doc.collection_name \in DOMAIN colls
             THEN Goto(reg, colls, call, "drop_collection")
             ELSE Return(reg, colls, call, NoDoc)
      [] call.pc = "drop_collection" ->
             Return(reg, _drop_collection(colls, call.org_doc.collection_name),
                    call, NoDoc)

\* variant: the collection is left in place
delete_organization_step_keep_collection(reg, colls, call) ==
    CASE call.pc = "find_org" ->
             LET org_doc == find_one_by_name_lower(reg, NormalizedName(call.name))
             IN IF org_doc = NoDoc
                THEN Raise(reg, colls, call, "ValueError", "Organization not found")
                ELSE Goto(reg, colls, [call EXCEPT !.org_doc = org_doc],
                          "list_collections")
      [] call.pc = "list_collections" ->
             IF call.org_doc.collection_name \in DOMAIN colls
             THEN Goto(reg, colls, call, "drop_collection")
             ELSE Goto(reg, colls, call, "delete_one")
      [] call.pc = "drop_collection" ->
             Goto(reg, colls, call, "delete_one")
      [] call.pc = "delete_one" ->
             Return({r \in reg : r.id # call.org_doc.id}, colls, call, NoDoc)

\* delete_organization from one await to the next
delete_organization_step(reg, colls, call) ==
    CASE call.pc = "find_org" ->
             LET org_doc == find_one_by_name_lower(reg, NormalizedName(call.name))
             IN IF org_doc = NoDoc
                THEN Raise(reg, colls, call, "ValueError", "Organization not found")
                ELSE Goto(reg, colls, [call EXCEPT !.org_doc = org_doc],
                          "list_collections")
      [] call.pc = "list_collections" ->
             IF call.org_doc.collection_name \in DOMAIN colls
             THEN Goto(reg, colls, call, "drop_collection")
             ELSE Goto(reg, colls, call, "delete_one")
      [] call.pc = "drop_collection" ->
             Goto(reg, _drop_collection(colls, call.org_doc.collection_name),
                  call, "delete_one")
      [] call.pc = "delete_one" ->
             Return({r \in reg : r.id # call.org_doc.id}, colls, call, NoDoc)

\* the next await of a call in flight
StoreCall(reg, colls, call, oid, now) ==
    CASE call.op = "create" -> create_organization_step(reg, colls, call, oid, now)
      [] call.op = "update" -> update_organization_step(reg, colls, call, now)
      [] call.op = "delete" -> delete_organization_step(reg, colls, call)

\* the store call awaited raises instead: nothing is written, the exception
\* leaves the service method
StoreFailure(reg, colls, call) ==
    Raise(reg, colls, call, "PyMongoError", "store call failed")

\* what the route answers for a finished call: the value returned, an
\* HTTPException for a ValueError, and the server's answer to any other
\* exception, which the routes let through
route_outcome(call) ==
    IF call.raised = ""
    THEN Response(call.op,
                  CASE call.op = "create" -> 201
                    [] call.op = "update" -> 200
                    [] call.op = "delete" -> 204,
                  "", call.result, TRUE)
    ELSE IF call.raised = "ValueError"
    THEN Response(call.op, IF call.op = "delete" THEN 404 ELSE 400,
                  call.message, NoDoc, FALSE)
    ELSE Response(call.op, 500, "Internal Server Error", NoDoc, FALSE)

\* ----------------------------------------------------------------- actions
Callers == 1..MaxCallers

Init ==
    /\ registry = {}
    /\ collections = << >>
    /\ nextId = 1
    /\ clock = 0
    /\ tokens = {}
    /\ issuer = << >>
    /\ calls = [caller \in Callers |-> IdleCall]
    /\ last = Response("none", 0, "", NoDoc, FALSE)

\* POST /org/create
POST_org_create(payload) ==
    /\ nextId <= MaxOrgs
    /\ \E h \in {route_create_organization(registry, collections, payload,
                                           nextId, clock)} :
          /\ registry' = h.registry
          /\ collections' = h.collections
          /\ last' = h.response
          /\ nextId' = IF h.response.status = 201 THEN nextId + 1 ELSE nextId
    /\ UNCHANGED <<clock, tokens, issuer, calls>>

\* GET /org/get
GET_org_get(organization_name) ==
    /\ \E h \in {route_get_organization(registry, collections, organization_name)} :
          /\ registry' = h.registry
          /\ collections' = h.collections
          /\ last' = h.response
    /\ UNCHANGED <<nextId, clock, tokens, issuer, calls>>

\* PUT /org/update
PUT_org_update(credentials, payload) ==
    /\ \E h \in {route_update_organization(registry, collections, credentials,
                                           payload, clock)} :
          /\ registry' = h.registry
          /\ collections' = h.collections
          /\ last' = h.response
    /\ UNCHANGED <<nextId, clock, tokens, issuer, calls>>

\* DELETE /org/delete
DELETE_org_delete(credentials, organization_name) ==
    /\ \E h \in {route_delete_organization(registry, collections, credentials,
                                           organization_name, clock)} :
          /\ registry' = h.registry
          /\ collections' = h.collections
          /\ last' = h.response
    /\ UNCHANGED <<nextId, clock, tokens, issuer, calls>>

\* POST /admin/login; the client keeps the token or lets it go
POST_admin_login(payload, keep) ==
    /\ \E h \in {route_admin_login(registry, collections, payload, clock)} :
          /\ registry' = h.registry
          /\ collections' = h.collections
          /\ last' = h.response
          /\ \E kept \in {/\ h.response.status = 200
                            /\ keep
                            /\ Cardinality(tokens) < MaxTokens} :
                /\ tokens' = IF kept
                             THEN tokens \cup {h.response.body.access_token}
                             ELSE tokens
                /\ issuer' = IF kept
                             THEN [t \in tokens' |->
                                      IF t = h.response.body.access_token
                                      THEN find_one_by_email(
                                               registry,
                                               NormalizedEmail(payload.email)).id
                                      ELSE issuer[t]]
                             ELSE issuer
    /\ UNCHANGED <<nextId, clock, calls>>

\* OrganizationService.update_organization, called directly
call_update_organization(current_org_name, payload) ==
    /\ \E r \in {svc_update_organization(registry, collections, current_org_name,
                                         payload, clock)} :
          /\ registry' = r.registry
          /\ collections' = r.collections
          /\ last' = Response("update", 0, r.error, r.result, r.wrote)
    /\ UNCHANGED <<nextId, clock, tokens, issuer, calls>>

\* OrganizationService.delete_organization, called directly
call_delete_organization(organization_name) ==
    /\ \E r \in {svc_delete_organization(registry, collections, organization_name)} :
          /\ registry' = r.registry
          /\ collections' = r.collections
          /\ last' = Response("delete", 0, r.error, r.result, r.wrote)
    /\ UNCHANGED <<nextId, clock, tokens, issuer, calls>>

\* a tenant writes a document into the collection of a live organization
tenant_insert(organization_name, doc) ==
    LET collection_name == build_org_collection_name(organization_name)
    IN /\ \E r \in registry : r.name = organization_name
       /\ collection_name \in DOMAIN collections
       /\ collections' = [collections EXCEPT ![collection_name] = @ \cup {doc}]
       /\ UNCHANGED <<registry, nextId, clock, tokens, issuer, calls, last>>

\* time passes
Tick(limit) ==
    /\ clock < limit * ClockStep
    /\ clock' = clock + ClockStep
    /\ UNCHANGED <<registry, collections, nextId, tokens, issuer, calls, last>>

\* build_org_collection_name applied to a name
call_build_org_collection_name(organization_name) ==
    /\ last' = Response("build_org_collection_name", 0, "",
                        [name |-> organization_name,
                         collection_name |->
                             build_org_collection_name(organization_name)],
                        FALSE)
    /\ UNCHANGED <<registry, collections, nextId, clock, tokens, issuer, calls>>

\* a caller enters create_organization
begin_create_organization(caller, payload, alone) ==
    /\ ~InFlight(calls[caller])
    /\ alone => \A c \in Callers : ~InFlight(calls[c])
    /\ nextId + Cardinality({c \in Callers : /\ InFlight(calls[c])
                                             /\ calls[c].op = "create"}) <= MaxOrgs
    /\ calls' = [calls EXCEPT ![caller] =
                    NewCall("create", "find_existing",
                            payload.organization_name, payload)]
    /\ UNCHANGED <<registry, collections, nextId, clock, tokens, issuer, last>>

\* a caller enters update_organization
begin_update_organization(caller, current_org_name, payload) ==
    /\ \A c \in Callers : ~InFlight(calls[c])
    /\ calls' = [calls EXCEPT ![caller] =
                    NewCall("update", "find_org", current_org_name, payload)]
    /\ UNCHANGED <<registry, collections, nextId, clock, tokens, issuer, last>>

\* a caller enters delete_organization
begin_delete_organization(caller, organization_name) ==
    /\ \A c \in Callers : ~InFlight(calls[c])
    /\ calls' = [calls EXCEPT ![caller] =
                    NewCall("delete", "find_org", organization_name, NoPayload)]
    /\ UNCHANGED <<registry, collections, nextId, clock, tokens, issuer, last>>

\* the store call a caller awaits completes
store_call(caller) ==
    /\ InFlight(calls[caller])
    /\ \E s \in {StoreCall(registry, collections, calls[caller], nextId, clock)} :
          /\ registry' = s.registry
          /\ collections' = s.collections
          /\ calls' = [calls EXCEPT ![caller] = s.call]
          /\ nextId' = IF Cardinality(s.registry) > Cardinality(registry)
                       THEN nextId + 1 ELSE nextId
    /\ UNCHANGED <<clock, tokens, issuer, last>>

\* the store call a caller awaits raises
store_failure(caller) ==
    /\ InFlight(calls[caller])
    /\ \E s \in {StoreFailure(registry, collections, calls[caller])} :
          /\ registry' = s.registry
          /\ collections' = s.collections
          /\ calls' = [calls EXCEPT ![caller] = s.call]
    /\ UNCHANGED <<nextId, clock, tokens, issuer, last>>

\* ---------------------------------------------------------- specifications
\* the organization service: its methods called one at a time, to completion
ServicePasswords == {"password1"}

Next ==
    \/ \E payload \in CreatePayloads(Names, Emails, ServicePasswords) :
          POST_org_create(payload)
    \/ \E name \in Names : GET_org_get(name)
    \/ \E current \in Names, payload \in UpdatePayloads(Names, Emails, ServicePasswords) :
          call_update_organization(current, payload)
    \/ \E name \in Names : call_delete_organization(name)
    \/ \E name \in Names, doc \in Docs : tenant_insert(name, doc)
    \/ Tick(MaxTicks)

Spec == Init /\ [][Next]_vars

\* the HTTP API: the protected routes behind the bearer-token gate
ApiNames == {NameA, NameD}

ApiUpdatePayloads == UpdatePayloads(ApiNames, {EmailLower}, {"password2"})

NextApi ==
    \/ \E payload \in CreatePayloads(ApiNames, Emails, {"password1"}) :
          POST_org_create(payload)
    \/ \E credentials \in Credentials, payload \in ApiUpdatePayloads :
          PUT_org_update(credentials, payload)
    \/ \E credentials \in Credentials, name \in ApiNames :
          DELETE_org_delete(credentials, name)
    \/ \E payload \in LoginPayloads, keep \in BOOLEAN :
          POST_admin_login(payload, keep)
    \/ Tick(MaxApiTicks)

SpecApi == Init /\ [][NextApi]_vars

\* the collection naming rule, applied to one name after another
NextNaming == \E name \in NamingNames : call_build_org_collection_name(name)

SpecNaming == Init /\ [][NextNaming]_vars

\* the service with store calls that can fail: one call at a time, each
\* store call either completes or raises
FaultNames == {NameA, NameD}

NextFault ==
    \/ \E payload \in CreatePayloads(FaultNames, {EmailLower}, ServicePasswords) :
          begin_create_organization(1, payload, TRUE)
    \/ \E current \in FaultNames,
          payload \in UpdatePayloads(FaultNames, {EmailLower}, {}) :
          begin_update_organization(1, current, payload)
    \/ \E name \in FaultNames : begin_delete_organization(1, name)
    \/ store_call(1)
    \/ store_failure(1)
    \/ \E name \in FaultNames, doc \in Docs : tenant_insert(name, doc)

SpecFault == Init /\ [][NextFault]_vars

\* concurrent creates: the callers' store calls interleave
RaceNames == {NameA, NameC}

NextRace ==
    \/ \E caller \in Callers,
          payload \in CreatePayloads(RaceNames, {EmailLower}, ServicePasswords) :
          begin_create_organization(caller, payload, FALSE)
    \/ \E caller \in Callers : store_call(caller)

SpecRace == Init /\ [][NextRace]_vars

\* ------------------------------------------------------------------ claims
DocumentsOf(colls, collection_name) ==
    IF collection_name \in DOMAIN colls THEN colls[collection_name] ELSE {}

\* the step is a completed update_organization that gave org a new collection_name
RenamedBy(org) ==
    /\ last'.op = "update"
    /\ last'.error = ""
    /\ last'.body.id = org.id
    /\ last'.body.collection_name # org.collection_name
    /\ org \notin registry'

\* C1: a completed rename to a name with a different collection name leaves
\* the new collection existing with exactly the documents the old collection
\* held before the call, and no collection under the old name.
C1_RenameMovesDocuments ==
    [][\A org \in registry :
          RenamedBy(org) =>
              /\ last'.body.collection_name \in DOMAIN collections'
              /\ collections'[last'.body.collection_name]
                     = DocumentsOf(collections, org.collection_name)
              /\ org.collection_name \notin DOMAIN collections']_vars

\* C2: every live record's collection exists, and no two live records name
\* the same tenant collection.
C2_OneCollectionPerOrganization ==
    /\ \A r \in registry : r.collection_name \in DOMAIN collections
    /\ \A r1, r2 \in registry :
          r1.collection_name = r2.collection_name => r1 = r2

\* C3: no two live records have the same name_lower, and name_lower is the
\* lowercased, trimmed name.
C3_UniqueNormalizedName ==
    /\ \A r \in registry : r.name_lower = Strip(Lower(r.name))
    /\ \A r1, r2 \in registry : r1.name_lower = r2.name_lower => r1 = r2

\* two live records, the second left by a completed rename
C3_Witness ==
    /\ Cardinality(registry) = 2
    /\ last.op = "update"
    /\ last.error = ""
    /\ last.wrote
    /\ \E r \in registry : r.id = last.body.id /\ r.name = NameC

\* C4: a create whose normalized name is taken by a live record is answered
\* with "Organization already exists" and leaves the registry and the set of
\* collections as they were.
C4_DuplicateCreateRejected ==
    [][last'.op = "create" =>
          \A payload \in CreatePayloads(Names, Emails, ServicePasswords) :
              (/\ POST_org_create(payload)
               /\ \E r \in registry :
                     r.name_lower = Strip(Lower(payload.organization_name)))
              => /\ last'.status = 400
                 /\ last'.error = "Organization already exists"
                 /\ registry' = registry
                 /\ collections' = collections]_vars

\* a create was refused although the name given differs from the stored one
C4_Witness ==
    /\ last.op = "create"
    /\ last.status = 400
    /\ last.error = "Organization already exists"
    /\ \E r \in registry : r.name = NameC

\* C5: renaming A to a name whose normalized form belongs to another live
\* record B raises "Organization name already exists" and changes neither the
\* registry nor any collection, whatever email or password the payload carries.
C5_RenameConflictChangesNothing ==
    \A a, b \in registry :
        \A current \in Names,
           payload \in UpdatePayloads(Names, Emails, ServicePasswords) :
            (/\ a # b
             /\ Strip(Lower(current)) = a.name_lower
             /\ payload.organization_name # NoStr
             /\ Strip(Lower(payload.organization_name)) = b.name_lower)
            => \E r \in {svc_update_organization(registry, collections, current,
                                                 payload, clock)} :
                  /\ r.error = "Organization name already exists"
                  /\ ~r.wrote
                  /\ r.registry = registry
                  /\ r.collections = collections

\* a rename was refused while two organizations were live
C5_Witness ==
    /\ last.op = "update"
    /\ last.error = "Organization name already exists"
    /\ Cardinality(registry) = 2

\* what GET /org/get answers right after the step
GetAfter(organization_name) ==
    route_get_organization(registry', collections', organization_name).response

\* C6 as stated: a create followed by get(name) returns the name and the email
\* as given and the collection name built from the name.
C6_CreateThenGetAsGiven ==
    [][last'.op = "create" /\ last'.status = 201 =>
          \A payload \in CreatePayloads(Names, Emails, ServicePasswords) :
              POST_org_create(payload) =>
                  \E g \in {GetAfter(payload.organization_name)} :
                      /\ g.status = 200
                      /\ g.body.organization_name = payload.organization_name
                      /\ g.body.email = payload.email
                      /\ g.body.collection_name
                             = Prefix \o normalize_org_name(payload.organization_name)
       ]_vars

\* C6 as amended: the email returned is the email given in lower case.
C6_CreateThenGetLowersEmail ==
    [][last'.op = "create" /\ last'.status = 201 =>
          \A payload \in CreatePayloads(Names, Emails, ServicePasswords) :
              POST_org_create(payload) =>
                  \E g \in {GetAfter(payload.organization_name)} :
                      /\ g.status = 200
                      /\ g.body.organization_name = payload.organization_name
                      /\ g.body.email = Lower(payload.email)
                      /\ g.body.collection_name
                             = Prefix \o normalize_org_name(payload.organization_name)
       ]_vars

\* a create with an upper-case name and an upper-case email has succeeded
C6_Witness ==
    /\ last.op = "create"
    /\ last.status = 201
    /\ last.body.organization_name = NameC
    /\ last.body.email = Lower(EmailUpper)

\* C7: an update with no email, no password and no name, or a name that equals
\* the current one after lowercasing and trimming, returns the current record
\* and writes nothing.
C7_EmptyUpdateWritesNothing ==
    \A org \in registry :
        \A current \in Names,
           payload \in UpdatePayloads(Names, Emails, ServicePasswords) :
            (/\ Strip(Lower(current)) = org.name_lower
             /\ payload.email = NoStr
             /\ payload.password = NoPassword
             /\ \/ payload.organization_name = NoStr
                \/ Strip(Lower(payload.organization_name)) = Strip(Lower(org.name)))
            => \E r \in {svc_update_organization(registry, collections, current,
                                                 payload, clock)} :
                  /\ r.error = ""
                  /\ ~r.wrote
                  /\ r.registry = registry
                  /\ r.collections = collections
                  /\ r.result.id = org.id
                  /\ r.result.organization_name = org.name
                  /\ r.result.updated_at = org.updated_at

\* an update returned a record last written before the present time
C7_Witness ==
    /\ last.op = "update"
    /\ last.error = ""
    /\ ~last.wrote
    /\ last.body.updated_at < clock

\* the credentials the gate is to deny: no bearer token, a malformed token, a
\* signature that does not verify, an expiry that has passed, a missing claim
Deniable(credentials, now) ==
    \/ ~credentials.present
    \/ credentials.credentials.malformed
    \/ credentials.credentials.key # SecretKey
    \/ credentials.credentials.payload.exp <= now
    \/ "admin_email" \notin DOMAIN credentials.credentials.payload
    \/ "organization_name" \notin DOMAIN credentials.credentials.payload

\* C8: for credentials the gate is to deny, the gate answers 401, and update
\* and delete answer 401 without writing: the registry and the collections
\* stay as they are.
C8_GateDenies ==
    \A credentials \in Credentials :
        Deniable(credentials, clock) =>
            /\ get_current_admin(credentials, clock).status = 401
            /\ \A payload \in ApiUpdatePayloads :
                  \E h \in {route_update_organization(registry, collections,
                                                      credentials, payload, clock)} :
                      /\ h.response.status = 401
                      /\ ~h.response.wrote
                      /\ h.registry = registry
                      /\ h.collections = collections
            /\ \A name \in ApiNames :
                  \E h \in {route_delete_organization(registry, collections,
                                                      credentials, name, clock)} :
                      /\ h.response.status = 401
                      /\ ~h.response.wrote
                      /\ h.registry = registry
                      /\ h.collections = collections

\* a protected route refused a token while the client held an expired one
C8_Witness ==
    /\ last.op \in {"update", "delete"}
    /\ last.status = 401
    /\ last.error = "Invalid or expired token"
    /\ registry # {}
    /\ \E t \in tokens : t.payload.exp <= clock

\* the times the clock can show from now on
TimesFrom(now) == {now + k * ClockStep : k \in 0..MaxApiTicks}

\* the gate lets the token in at the time given, with the claims given
Admits(token, now, admin_email, organization_name) ==
    \E g \in {get_current_admin(Bearer(token), now)} :
        /\ g.status = 200
        /\ g.payload.admin_email = admin_email
        /\ g.payload.organization_name = organization_name

\* C9: a token from a successful login is let in by the gate at every time
\* before its expiry, with the admin_email and organization_name that login
\* read from the record and returned in the bundle.
C9_TokenRoundTrip ==
    /\ \A payload \in LoginPayloads :
          \E h \in {route_admin_login(registry, collections, payload, clock)} :
              h.response.status = 200 =>
                  \E org \in registry :
                      /\ org.email = Strip(Lower(payload.email))
                      /\ h.response.body.admin_email = org.email
                      /\ h.response.body.organization_name = org.name
                      /\ \A now \in TimesFrom(clock) :
                            now < clock + AccessTokenExpireMinutes =>
                                Admits(h.response.body.access_token, now,
                                       org.email, org.name)
    /\ \A t \in tokens :
          clock < t.payload.iat + AccessTokenExpireMinutes =>
              Admits(t, clock, t.payload.admin_email, t.payload.organization_name)

\* a protected route let in a token issued at an earlier time
C9_Witness ==
    /\ last.op = "update"
    /\ last.status = 200
    /\ last.wrote
    /\ \E t \in tokens : t.payload.iat < last.body.updated_at

NoRecordFor(email) == \A r \in registry : r.email # Strip(Lower(email))

\* C10: a login with an email of no record and a login with the email of a
\* record that fails on the password get the same response, and neither
\* changes the store.
C10_LoginFailuresAlike ==
    \A unknown, wrong \in LoginPayloads :
        \E h1 \in {route_admin_login(registry, collections, unknown, clock)},
           h2 \in {route_admin_login(registry, collections, wrong, clock)} :
            (/\ NoRecordFor(unknown.email)
             /\ ~NoRecordFor(wrong.email)
             /\ h2.response.status # 200)
            => /\ h1.response = h2.response
               /\ h1.response.status = 401
               /\ h1.response.error = "Invalid credentials"
               /\ h1.registry = registry /\ h1.collections = collections
               /\ h2.registry = registry /\ h2.collections = collections

\* a login failed in a state where both kinds of failure can happen
C10_Witness ==
    /\ last.op = "login"
    /\ last.status = 401
    /\ \E unknown, wrong \in LoginPayloads :
          /\ NoRecordFor(unknown.email)
          /\ \E r \in registry :
                /\ r.email = Strip(Lower(wrong.email))
                /\ r.password_hash # hash_password(wrong.password)

C12_DeleteUnknownChangesNothing ==
    \A name \in Names :
        (\A org \in registry : org.name_lower # Strip(Lower(name)))
        => \E r \in {svc_delete_organization(registry, collections, name)} :
              /\ r.error = "Organization not found"
              /\ ~r.wrote
              /\ r.registry = registry
              /\ r.collections = collections

\* a delete was refused while a live organization held tenant documents
C12_Witness ==
    /\ last.op = "delete"
    /\ last.error = "Organization not found"
    /\ ~last.wrote
    /\ \E org \in registry :
          DocumentsOf(collections, org.collection_name) # {}

\* the reference rule: lowercase; a character outside [a-z0-9] becomes an
\* underscore if it starts a run and vanishes otherwise; the underscores at
\* both ends go; "org" stands in for an empty result
ReferenceSlug(name) ==
    LET lowered == Lower(name)
        kept(i) == lowered[i] \in LowerCase \cup Digits
        marked == [i \in DOMAIN lowered |->
                      IF kept(i) THEN lowered[i]
                      ELSE IF i > 1 /\ ~kept(i - 1) THEN "" ELSE "_"]
        collapsed == SelectSeq(marked, LAMBDA c : c # "")
        inner == {i \in DOMAIN collapsed : collapsed[i] # "_"}
        first == CHOOSE i \in inner : \A j \in inner : i <= j
        final == CHOOSE i \in inner : \A j \in inner : j <= i
    IN IF inner = {} THEN <<"o", "r", "g">>
       ELSE SubSeq(collapsed, first, final)

\* C13: build_org_collection_name(name) is "org_" followed by the reference
\* slug of the name; slugifying a slug gives the slug back; " My Org! " and
\* "my-org" give "org_my_org" and "Acme, Inc." gives "org_acme_inc".
C13_CollectionNamingRule ==
    last.op = "build_org_collection_name" =>
        /\ last.body.collection_name
               = <<"o", "r", "g", "_">> \o ReferenceSlug(last.body.name)
        /\ normalize_org_name(normalize_org_name(last.body.name))
               = normalize_org_name(last.body.name)
        /\ last.body.name \in {NameMyOrgSpaced, NameMyOrgDashed} =>
               last.body.collection_name
                   = <<"o", "r", "g", "_", "m", "y", "_", "o", "r", "g">>
        /\ last.body.name = NameAcmeInc =>
               last.body.collection_name
                   = <<"o", "r", "g", "_", "a", "c", "m", "e", "_", "i", "n", "c">>

\* the rule was applied to a name with a run of two characters to replace
C13_Witness ==
    /\ last.op = "build_org_collection_name"
    /\ last.body.name = NameAcmeInc
    /\ last.body.collection_name
           = <<"o", "r", "g", "_", "a", "c", "m", "e", "_", "i", "n", "c">>

\* the response to a store failure before anything was written: the generic
\* internal error
InternalErrorOf(call) ==
    route_outcome(StoreFailure(registry, collections,
                               NewCall(call.op, "find_org", call.name,
                                       call.payload)).call)

\* the record of the call carries the new name and the new collection_name
Persisted(reg, call) ==
    \E r \in reg :
        /\ r.id = call.org_doc.id
        /\ r.name = call.payload.organization_name
        /\ r.collection_name
               = build_org_collection_name(call.payload.organization_name)

\* C14: a rename whose migration failed partway is answered with an outcome of
\* its own, which is neither success nor a conflict or not-found error nor
\* the generic internal error, and the record keeps the new name.
C14_PartialFailureSurfaced ==
    \A caller \in Callers :
        \E call \in {calls[caller]} :
            (/\ call.op = "update"
             /\ call.pc = "done"
             /\ call.failed_at \in MigrationSteps)
            => /\ route_outcome(call).status \notin {200, 400, 404}
               /\ route_outcome(call) # InternalErrorOf(call)
               /\ Persisted(registry, call)

\* C15 as stated: the migration runs only once the record is persisted with
\* the new name and collection_name, and after a failure at the drop of the
\* old collection both collections exist and the record points at the new one.
C15_BothCollectionsAfterFailedDrop ==
    \A caller \in Callers :
        \E call \in {calls[caller]} :
            call.op = "update" =>
                /\ call.pc \in MigrationSteps => Persisted(registry, call)
                /\ call.failed_at = "drop_old" =>
                      /\ call.old_collection_name \in DOMAIN collections
                      /\ call.org_doc.collection_name \in DOMAIN collections
                      /\ Persisted(registry, call)

\* C15 as amended: the migration runs only once the record is persisted; no
\* step of the migration before the drop removes the old collection; a
\* failure at the drop leaves the store as it was, with the new collection
\* existing and the record pointing at it.
C15_FailedDropChangesNothing ==
    [][\A caller \in Callers :
          \E call \in {calls[caller]}, next \in {calls'[caller]} :
              (call.op = "update" /\ InFlight(call)) =>
                  /\ next.pc \in MigrationSteps => Persisted(registry', next)
                  /\ (InFlight(next) \/ next.failed_at # "") =>
                        (next.old_collection_name \in DOMAIN collections
                             => next.old_collection_name \in DOMAIN collections')
                  /\ next.failed_at = "drop_old" =>
                        /\ registry' = registry
                        /\ collections' = collections
                        /\ next.org_doc.collection_name \in DOMAIN collections'
                        /\ Persisted(registry', next)]_vars

\* a rename failed at the drop after it had copied documents
C15_Witness ==
    \E caller \in Callers :
        /\ calls[caller].op = "update"
        /\ calls[caller].failed_at = "drop_old"
        /\ calls[caller].documents # {}
        /\ calls[caller].old_collection_name \in DOMAIN collections
        /\ DocumentsOf(collections, calls[caller].org_doc.collection_name)
               = calls[caller].documents

\* C16: delete_organization reaches the deletion of the record only with the
\* collection gone, and when the drop raises the record is live and unchanged
\* and its collection is still there.
C16_RecordOutlivesFailedDrop ==
    \A caller \in Callers :
        \E call \in {calls[caller]} :
            call.op = "delete" =>
                /\ call.pc = "delete_one" =>
                      call.org_doc.collection_name \notin DOMAIN collections
                /\ (call.org_doc # NoDoc /\ call.org_doc \notin registry) =>
                      call.org_doc.collection_name \notin DOMAIN collections
                /\ call.failed_at \in {"list_collections", "drop_collection"} =>
                      call.org_doc \in registry
                /\ call.failed_at = "drop_collection" =>
                      call.org_doc.collection_name \in DOMAIN collections

\* a delete ended with the drop raising, the collection holding documents
C16_Witness ==
    \E caller \in Callers :
        /\ calls[caller].op = "delete"
        /\ calls[caller].pc = "done"
        /\ calls[caller].failed_at = "drop_collection"
        /\ calls[caller].org_doc \in registry
        /\ DocumentsOf(collections, calls[caller].org_doc.collection_name) # {}

\* C17 as stated: when the drop succeeded and the deletion of the record
\* raised, the collection exists and no live record names it.
C17_OrphanedCollection ==
    \A caller \in Callers :
        \E call \in {calls[caller]} :
            (call.op = "delete" /\ call.failed_at = "delete_one") =>
                /\ call.org_doc.collection_name \in DOMAIN collections
                /\ \A r \in registry :
                      r.collection_name # call.org_doc.collection_name

\* C17 as amended: when the drop succeeded and the deletion of the record
\* raised, the record is live and unchanged and its collection does not exist.
C17_RecordWithoutCollection ==
    \A caller \in Callers :
        \E call \in {calls[caller]} :
            (call.op = "delete" /\ call.failed_at = "delete_one") =>
                /\ call.org_doc \in registry
                /\ call.org_doc.collection_name \notin DOMAIN collections

\* a delete ended with the deletion of the record raising
C17_Witness ==
    \E caller \in Callers :
        /\ calls[caller].op = "delete"
        /\ calls[caller].pc = "done"
        /\ calls[caller].failed_at = "delete_one"
        /\ calls[caller].org_doc \in registry

\* create_organization run from where the call stands to its end
RECURSIVE RunCreate(_, _, _, _, _)
RunCreate(reg, colls, call, oid, now) ==
    IF ~InFlight(call) THEN Stepped(reg, colls, call)
    ELSE LET s == create_organization_step(reg, colls, call, oid, now)
         IN RunCreate(s.registry, s.collections, s.call, oid, now)

\* C18: when two creates of the same normalized name have both passed the
\* uniqueness lookup and neither has inserted, both can run to their end and
\* return, and the registry then holds two records with the same name_lower.
C18_CreateRace ==
    \A c1, c2 \in Callers :
        (/\ c1 # c2
         /\ calls[c1].op = "create" /\ calls[c1].pc = "list_collections"
         /\ calls[c2].op = "create" /\ calls[c2].pc = "list_collections"
         /\ Strip(Lower(calls[c1].name)) = Strip(Lower(calls[c2].name)))
        => \E first \in {RunCreate(registry, collections, calls[c1],
                                   nextId, clock)} :
              \E second \in {RunCreate(first.registry, first.collections,
                                       calls[c2], nextId + 1, clock)} :
                  /\ first.call.raised = ""
                  /\ second.call.raised = ""
                  /\ \E r1, r2 \in second.registry :
                        /\ r1.id # r2.id
                        /\ r1.name_lower = r2.name_lower

\* both creates have returned and two records share a name_lower
C18_Witness ==
    /\ \A caller \in Callers :
          /\ calls[caller].op = "create"
          /\ calls[caller].pc = "done"
          /\ calls[caller].raised = ""
          /\ calls[caller].result.id # 0
    /\ \E r1, r2 \in registry :
          /\ r1.id # r2.id
          /\ r1.name_lower = r2.name_lower
          /\ r1.name # r2.name

\* C19: a create, update or delete, which changes the record of one
\* organization, leaves the collection named by every other live record in
\* place with the documents it had.
C19_TenantIsolation ==
    [][registry' # registry =>
          \A b \in registry \cap registry' :
              b.collection_name \in DOMAIN collections =>
                  /\ b.collection_name \in DOMAIN collections'
                  /\ collections'[b.collection_name]
                         = collections[b.collection_name]]_vars

\* C20: an update or delete request that succeeds changes or removes no
\* record other than the one that login read when it issued the token
\* presented.
C20_TokenBoundToRecord ==
    [][(/\ last'.op \in {"update", "delete"}
        /\ last'.status \in {200, 204}
        /\ registry' # registry)
       => \A r \in registry \ registry' :
             \E t \in tokens : issuer[t] = r.id]_vars

\* C21: for every live record, a login with the record's stored email and
\* the password last set for it succeeds, and both the bundle and the token
\* carry that record's name, also when another record holds the same email.
C21_LoginAvailable ==
    \A org \in registry :
        \A password \in Passwords :
            org.password_hash = hash_password(password) =>
                \E h \in {route_admin_login(registry, collections,
                                            [email |-> org.email,
                                             password |-> password],
                                            clock)} :
                    /\ h.response.status = 200
                    /\ h.response.body.organization_name = org.name
                    /\ h.response.body.access_token.payload.organization_name
                           = org.name

====
